---------------------------- MODULE Spec2Model ----------------------------
(***************************************************************************)
(* Model of warehouse_slot_optimiser.py: the compatibility checker         *)
(* (size_fits, can_store), the location ranker (prepare_locations) and the *)
(* greedy assignment engine (assign_skus).                                 *)
(*                                                                         *)
(* A cell of a table holds a text as a string; str() turns it into the     *)
(* sequence of its characters (Chars), and strip(), lower(), upper(), the  *)
(* substring tests and the digit scan of the aisle text are computed on    *)
(* that sequence.  A missing cell is the value NaN; a column that the      *)
(* table does not have is the field value Absent, for which row.get(col)   *)
(* yields None.                                                            *)
(***************************************************************************)
EXTENDS Integers, Sequences, FiniteSets, TLC

VARIABLES
    sku_columns,  \* the column names of the SKU table
    sku_df,       \* the SKU table handed to the run, in the caller's row order
    loc_in,       \* the location table as loaded, before ranking
    loc_df,       \* the ranked location table, with Used_Slots (<<>> before ranking)
    sorted,       \* assign_skus' local sku_df: the rows after sort_values
    assignments,  \* the list assign_skus is building
    k,            \* number of SKUs the outer loop of assign_skus has processed
    pc,           \* position of the run
    pass,         \* how many times assign_skus has been entered on this loc_df
    first_out,    \* the list returned by the first call of assign_skus
    out_file,     \* the content of OUTPUT_FILE (Null while it has not been written)
    seen,         \* per processed SKU, the Used_Slots column as its scan found it
    probe         \* a single call of can_store: its arguments and result

vars ==
    <<sku_columns, sku_df, loc_in, loc_df, sorted, assignments, k, pc, pass, first_out,
      out_file, seen, probe>>

-----------------------------------------------------------------------------
(* Text *)

NaN == "<NaN>"
None == "<None>"
Absent == "<Absent>"

TxtSmall == <<"S", "m", "a", "l", "l">>
TxtMedium == <<"M", "e", "d", "i", "u", "m">>
TxtLarge == <<"L", "a", "r", "g", "e">>
TxtS == <<"S">>
TxtM == <<"M">>
TxtL == <<"L">>
TxtMplusL == <<"M", "+", "L">>
TxtFragileOnly == <<"f", "r", "a", "g", "i", "l", "e", "-", "o", "n", "l", "y">>
TxtFragile == <<"f", "r", "a", "g", "i", "l", "e">>
TxtChilled == <<"c", "h", "i", "l", "l", "e", "d">>
TxtHazard == <<"h", "a", "z", "a", "r", "d">>
TxtNan == <<"n", "a", "n">>
TxtNone == <<"N", "o", "n", "e">>

\* the characters of every text that occurs in a cell
Chars ==
    "" :> <<>>
    @@ "Small" :> <<"S", "m", "a", "l", "l">>
    @@ "Medium" :> <<"M", "e", "d", "i", "u", "m">>
    @@ "Large" :> <<"L", "a", "r", "g", "e">>
    @@ " Medium " :> <<" ", "M", "e", "d", "i", "u", "m", " ">>
    @@ "small" :> <<"s", "m", "a", "l", "l">>
    @@ "XL" :> <<"X", "L">>
    @@ "S" :> <<"S">>
    @@ "M" :> <<"M">>
    @@ "L" :> <<"L">>
    @@ "M+L" :> <<"M", "+", "L">>
    @@ " m+l " :> <<" ", "m", "+", "l", " ">>
    @@ "s" :> <<"s">>
    @@ "X" :> <<"X">>
    @@ " " :> <<" ">>
    @@ "fragile" :> <<"f", "r", "a", "g", "i", "l", "e">>
    @@ " FRAGILE " :> <<" ", "F", "R", "A", "G", "I", "L", "E", " ">>
    @@ " Fragile" :> <<" ", "F", "r", "a", "g", "i", "l", "e">>
    @@ "fragile item" :> <<"f", "r", "a", "g", "i", "l", "e", " ", "i", "t", "e", "m">>
    @@ "standard" :> <<"s", "t", "a", "n", "d", "a", "r", "d">>
    @@ "Fragile-only" :> <<"F", "r", "a", "g", "i", "l", "e", "-", "o", "n", "l", "y">>
    @@ "Chilled storage" :> <<"C", "h", "i", "l", "l", "e", "d", " ", "s", "t", "o", "r", "a", "g", "e">>
    @@ "Chilled, FRAGILE-ONLY" :> <<"C", "h", "i", "l", "l", "e", "d", ",", " ", "F", "R", "A", "G", "I", "L", "E", "-", "O", "N", "L", "Y">>
    @@ "Fragile only" :> <<"F", "r", "a", "g", "i", "l", "e", " ", "o", "n", "l", "y">>
    @@ "Hazardous Chemicals" :> <<"H", "a", "z", "a", "r", "d", "o", "u", "s", " ", "C", "h", "e", "m", "i", "c", "a", "l", "s">>
    @@ "Glassware" :> <<"G", "l", "a", "s", "s", "w", "a", "r", "e">>
    @@ "Golden" :> <<"G", "o", "l", "d", "e", "n">>
    @@ "Standard" :> <<"S", "t", "a", "n", "d", "a", "r", "d">>
    @@ "Overflow" :> <<"O", "v", "e", "r", "f", "l", "o", "w">>
    @@ "Aisle-07" :> <<"A", "i", "s", "l", "e", "-", "0", "7">>
    @@ "Aisle-2" :> <<"A", "i", "s", "l", "e", "-", "2">>
    @@ "Bulk" :> <<"B", "u", "l", "k">>
    @@ "Bay 12-3" :> <<"B", "a", "y", " ", "1", "2", "-", "3">>

UpperChars ==
    <<"A", "B", "C", "D", "E", "F", "G", "H", "I", "J", "K", "L", "M",
      "N", "O", "P", "Q", "R", "S", "T", "U", "V", "W", "X", "Y", "Z">>

LowerChars ==
    <<"a", "b", "c", "d", "e", "f", "g", "h", "i", "j", "k", "l", "m",
      "n", "o", "p", "q", "r", "s", "t", "u", "v", "w", "x", "y", "z">>

DigitChars == <<"0", "1", "2", "3", "4", "5", "6", "7", "8", "9">>

Whitespace == {" ", "\t"}

IndexIn(c, chars) ==
    IF \E i \in 1..Len(chars) : chars[i] = c
    THEN CHOOSE i \in 1..Len(chars) : chars[i] = c
    ELSE 0

LowerTable ==
    [c \in {UpperChars[i] : i \in 1..Len(UpperChars)} |-> LowerChars[IndexIn(c, UpperChars)]]

UpperTable ==
    [c \in {LowerChars[i] : i \in 1..Len(LowerChars)} |-> UpperChars[IndexIn(c, LowerChars)]]

LowerChar(c) == IF c \in DOMAIN LowerTable THEN LowerTable[c] ELSE c

UpperChar(c) == IF c \in DOMAIN UpperTable THEN UpperTable[c] ELSE c

\* str.lower()
Lower(s) == [i \in 1..Len(s) |-> LowerChar(s[i])]

\* str.upper()
Upper(s) == [i \in 1..Len(s) |-> UpperChar(s[i])]

RECURSIVE LStrip(_)
LStrip(s) == IF s # <<>> /\ Head(s) \in Whitespace THEN LStrip(Tail(s)) ELSE s

RECURSIVE RStrip(_)
RStrip(s) ==
    IF s # <<>> /\ s[Len(s)] \in Whitespace THEN RStrip(SubSeq(s, 1, Len(s) - 1)) ELSE s

\* str.strip()
Strip(s) == RStrip(LStrip(s))

\* the Python test "pat in s"
Contains(pat, s) ==
    \E i \in 1..(Len(s) - Len(pat) + 1) : \A j \in 1..Len(pat) : s[i + j - 1] = pat[j]

\* str(x): a missing cell prints as "nan", None as "None"
Str(x) == IF x = NaN THEN TxtNan ELSE IF x = None THEN TxtNone ELSE Chars[x]

\* every value a cell can hold
CellValues == DOMAIN Chars \cup {NaN, None}

\* str(x).strip(), str(x).strip().upper() and str(x).strip().lower(), worked out once
\* for every cell value
StrStrip == [x \in CellValues |-> Strip(Str(x))]

StrStripUpper == [x \in CellValues |-> Upper(Strip(Str(x)))]

StrStripLower == [x \in CellValues |-> Lower(Strip(Str(x)))]

\* row.get(col): None when the row has no such column
Get(row, col) == IF row[col] = Absent THEN None ELSE row[col]

\* row.get(col, default)
GetOr(row, col, default) == IF row[col] = Absent THEN default ELSE row[col]

-----------------------------------------------------------------------------
(* Compatibility checker *)

\* the None of size_map.get(..., None), among codes that are character sequences
NoCode == <<"<None>">>

\* size_map.get(str(sku_size).strip(), None)
size_map(key) ==
    IF key = TxtSmall THEN TxtS
    ELSE IF key = TxtMedium THEN TxtM
    ELSE IF key = TxtLarge THEN TxtL
    ELSE NoCode

size_fits(sku_size, allowed) ==
    IF allowed = NaN \/ allowed = None THEN TRUE
    ELSE LET sku_code == size_map(StrStrip[sku_size])
         IN  IF sku_code = NoCode THEN TRUE
             ELSE LET allowed_code == StrStripUpper[allowed]
                  IN  IF allowed_code = sku_code THEN TRUE
                      ELSE IF allowed_code = TxtMplusL /\ sku_code \in {TxtM, TxtL} THEN TRUE
                      ELSE FALSE

\* a can_store that tests the handling type by substring instead of equality
can_store_handling_substring(sku_row, loc_row) ==
    IF ~size_fits(Get(sku_row, "SKU_Size_Class"), Get(loc_row, "Allowed_Size_Class"))
    THEN FALSE
    ELSE LET handling == StrStripLower[GetOr(sku_row, "Handling_Type", "")]
             special == StrStripLower[GetOr(loc_row, "Special_Constraint", "")]
             family == StrStripLower[GetOr(sku_row, "Family_or_Category", "")]
         IN  IF Contains(TxtFragileOnly, special) /\ ~Contains(TxtFragile, handling) THEN FALSE
             ELSE IF Contains(TxtChilled, special) /\ Contains(TxtHazard, family) THEN FALSE
             ELSE TRUE

can_store(sku_row, loc_row) ==
    IF ~size_fits(Get(sku_row, "SKU_Size_Class"), Get(loc_row, "Allowed_Size_Class"))
    THEN FALSE
    ELSE LET handling == StrStripLower[GetOr(sku_row, "Handling_Type", "")]
             special == StrStripLower[GetOr(loc_row, "Special_Constraint", "")]
             family == StrStripLower[GetOr(sku_row, "Family_or_Category", "")]
         IN  IF Contains(TxtFragileOnly, special) /\ handling # TxtFragile THEN FALSE
             ELSE IF Contains(TxtChilled, special) /\ Contains(TxtHazard, family) THEN FALSE
             ELSE TRUE

-----------------------------------------------------------------------------
(* Location ranker *)

\* value of a run of digits, most significant first
RECURSIVE DigitsValue(_, _)
DigitsValue(s, acc) ==
    IF s = <<>> \/ IndexIn(Head(s), DigitChars) = 0 THEN acc
    ELSE DigitsValue(Tail(s), acc * 10 + (IndexIn(Head(s), DigitChars) - 1))

\* re.search(r"(\d+)", str(a)): the first run of digits anywhere in the text
RECURSIVE FirstDigits(_)
FirstDigits(s) ==
    IF s = <<>> THEN 0
    ELSE IF IndexIn(Head(s), DigitChars) > 0 THEN DigitsValue(s, 0)
    ELSE FirstDigits(Tail(s))

aisle_num(a) == IF a = NaN THEN 0 ELSE FirstDigits(Str(a))

\* loc_df["Zone"].map(zone_rank).fillna(3)
zone_rank(z) ==
    IF z = "Golden" THEN 0
    ELSE IF z = "Standard" THEN 1
    ELSE IF z = "Overflow" THEN 2
    ELSE 3

\* by=["ZoneRank", "Level", "AisleNum", "Rack"], all ascending
KeyLess(a, b) ==
    \/ a.ZoneRank < b.ZoneRank
    \/ a.ZoneRank = b.ZoneRank /\ a.Level < b.Level
    \/ a.ZoneRank = b.ZoneRank /\ a.Level = b.Level /\ a.AisleNum < b.AisleNum
    \/ a.ZoneRank = b.ZoneRank /\ a.Level = b.Level /\ a.AisleNum = b.AisleNum
       /\ a.Rack < b.Rack

\* an insertion that puts a row in front of the rows of equal key
RECURSIVE InsertByKey_before_equal(_, _)
InsertByKey_before_equal(row, s) ==
    IF s = <<>> THEN <<row>>
    ELSE IF ~KeyLess(Head(s), row) THEN <<row>> \o s
    ELSE <<Head(s)>> \o InsertByKey_before_equal(row, Tail(s))

\* a row goes behind every row already placed whose key is not greater than its own
RECURSIVE InsertByKey(_, _)
InsertByKey(row, s) ==
    IF s = <<>> THEN <<row>>
    ELSE IF KeyLess(row, Head(s)) THEN <<row>> \o s
    ELSE <<Head(s)>> \o InsertByKey(row, Tail(s))

\* sort_values on several columns: pandas' lexsort, which keeps equal keys in input order
RECURSIVE SortByKey(_)
SortByKey(s) ==
    IF s = <<>> THEN <<>>
    ELSE InsertByKey(s[Len(s)], SortByKey(SubSeq(s, 1, Len(s) - 1)))

WithHelperColumns(row) ==
    [Location_ID |-> row.Location_ID, Zone |-> row.Zone, Aisle |-> row.Aisle,
     Rack |-> row.Rack, Level |-> row.Level,
     Allowed_Size_Class |-> row.Allowed_Size_Class,
     Special_Constraint |-> row.Special_Constraint,
     AisleNum |-> aisle_num(row.Aisle), ZoneRank |-> zone_rank(row.Zone),
     Used_Slots |-> 0]

prepare_locations(locs) == SortByKey([i \in 1..Len(locs) |-> WithHelperColumns(locs[i])])

-----------------------------------------------------------------------------
(* Assignment engine *)

MAX_SKUS_PER_LOCATION == 5

\* a cell of an assignment record: <<v>> holds the value v, <<>> is None
Cell(v) == <<v>>
Null == <<>>

\* the score of a row: the column assign_skus sorts by, which is also the value of
\* sku_row.get("AI_Priority_Score_100", sku_row.get("AI_Priority_Score", None))
Score(sku_row) ==
    IF "AI_Priority_Score_100" \in DOMAIN sku_row THEN sku_row.AI_Priority_Score_100
    ELSE sku_row.AI_Priority_Score

\* the sort with ascending left at its default: lowest score first
RECURSIVE AscendingOrders(_)
AscendingOrders(rows) ==
    IF rows = <<>> THEN {<<>>}
    ELSE LET low == {i \in 1..Len(rows) :
                        \A j \in 1..Len(rows) : Score(rows[i]) <= Score(rows[j])}
             First(row) == CHOOSE i \in low : rows[i] = row /\ \A j \in 1..(i - 1) : rows[j] # row
             Without(i) == [j \in 1..(Len(rows) - 1) |-> IF j < i THEN rows[j] ELSE rows[j + 1]]
         IN  UNION {{<<row>> \o rest : rest \in AscendingOrders(Without(First(row)))} :
                        row \in {rows[i] : i \in low}}

\* all orders of the rows in which the priority score never increases: the next
\* row is any row of the highest score still to come
RECURSIVE DescendingOrders(_)
DescendingOrders(rows) ==
    IF rows = <<>> THEN {<<>>}
    ELSE LET top == {i \in 1..Len(rows) :
                        \A j \in 1..Len(rows) : Score(rows[j]) <= Score(rows[i])}
             First(row) == CHOOSE i \in top : rows[i] = row /\ \A j \in 1..(i - 1) : rows[j] # row
             Without(i) == [j \in 1..(Len(rows) - 1) |-> IF j < i THEN rows[j] ELSE rows[j + 1]]
         IN  UNION {{<<row>> \o rest : rest \in DescendingOrders(Without(First(row)))} :
                        row \in {rows[i] : i \in top}}

\* the capacity test left out: every location counts as having room
HasRoom_unchecked(loc_row) == TRUE

\* the capacity test with > for >=: a location at the cap still has room
HasRoom_at_cap(loc_row) == ~(loc_row.Used_Slots > MAX_SKUS_PER_LOCATION)

\* loc_row["Used_Slots"] >= MAX_SKUS_PER_LOCATION: continue
HasRoom(loc_row) == ~(loc_row.Used_Slots >= MAX_SKUS_PER_LOCATION)

\* a scan without the compatibility test
RECURSIVE Scan_capacity_only(_, _, _)
Scan_capacity_only(sku_row, locs, idx) ==
    IF idx > Len(locs) THEN 0
    ELSE IF ~HasRoom(locs[idx]) THEN Scan_capacity_only(sku_row, locs, idx + 1)
    ELSE idx

\* a scan that gives up at the first full location instead of passing over it
RECURSIVE Scan_stops_at_full(_, _, _)
Scan_stops_at_full(sku_row, locs, idx) ==
    IF idx > Len(locs) THEN 0
    ELSE IF ~HasRoom(locs[idx]) THEN 0
    ELSE IF ~can_store(sku_row, locs[idx]) THEN Scan_stops_at_full(sku_row, locs, idx + 1)
    ELSE idx

\* a scan that takes the last location that qualifies instead of the first
Scan_last_fit(sku_row, locs, idx) ==
    LET fit == {i \in idx..Len(locs) : HasRoom(locs[i]) /\ can_store(sku_row, locs[i])}
    IN  IF fit = {} THEN 0 ELSE CHOOSE i \in fit : \A j \in fit : j <= i

\* the inner loop: index of the first location from idx on that has room and can
\* store the SKU, 0 when the loop runs off the end of the table
RECURSIVE Scan(_, _, _)
Scan(sku_row, locs, idx) ==
    IF idx > Len(locs) THEN 0
    ELSE IF ~HasRoom(locs[idx]) THEN Scan(sku_row, locs, idx + 1)
    ELSE IF ~can_store(sku_row, locs[idx]) THEN Scan(sku_row, locs, idx + 1)
    ELSE idx

Placed(sku_row, loc_row) ==
    [SKU_ID |-> sku_row.SKU_ID,
     Zone |-> Cell(loc_row.Zone), Aisle |-> Cell(loc_row.Aisle),
     Rack |-> Cell(loc_row.Rack), Level |-> Cell(loc_row.Level),
     Location_ID |-> Cell(loc_row.Location_ID),
     Priority_Score |-> Score(sku_row),
     Handling_Type |-> Get(sku_row, "Handling_Type"),
     SKU_Size_Class |-> Get(sku_row, "SKU_Size_Class")]

Unplaced(sku_row) ==
    [SKU_ID |-> sku_row.SKU_ID,
     Zone |-> Null, Aisle |-> Null, Rack |-> Null, Level |-> Null, Location_ID |-> Null,
     Priority_Score |-> Score(sku_row),
     Handling_Type |-> Get(sku_row, "Handling_Type"),
     SKU_Size_Class |-> Get(sku_row, "SKU_Size_Class")]

\* an outer loop without its "if not assigned" branch
Emitted_placed_only(sku_row, locs, loc_idx) ==
    IF loc_idx > 0 THEN <<Placed(sku_row, locs[loc_idx])>> ELSE <<>>

\* what one turn of the outer loop appends to assignments
Emitted(sku_row, locs, loc_idx) ==
    IF loc_idx > 0 THEN <<Placed(sku_row, locs[loc_idx])>> ELSE <<Unplaced(sku_row)>>

\* an update that counts a placement twice
Occupy_by_two(locs, loc_idx) == [locs EXCEPT ![loc_idx].Used_Slots = locs[loc_idx].Used_Slots + 2]

\* an update that also moves the location it counts on to the end of the table
Occupy_moving_to_back(locs, loc_idx) ==
    LET counted == [locs EXCEPT ![loc_idx].Used_Slots = locs[loc_idx].Used_Slots + 1]
    IN  [i \in 1..Len(locs) |->
            IF i < loc_idx THEN counted[i]
            ELSE IF i < Len(locs) THEN counted[i + 1]
            ELSE counted[loc_idx]]

\* loc_df.at[loc_idx, "Used_Slots"] = loc_row["Used_Slots"] + 1
Occupy(locs, loc_idx) == [locs EXCEPT ![loc_idx].Used_Slots = locs[loc_idx].Used_Slots + 1]

\* the counter update moved out of the inner loop: it also runs, on the last
\* location scanned, when nothing fitted
Counted_after_loop(locs, loc_idx) ==
    IF loc_idx > 0 THEN Occupy(locs, loc_idx)
    ELSE IF locs # <<>> THEN Occupy(locs, Len(locs))
    ELSE locs

\* loc_df after one turn of the outer loop
Counted(locs, loc_idx) == IF loc_idx > 0 THEN Occupy(locs, loc_idx) ELSE locs

-----------------------------------------------------------------------------
(* Inputs *)

MaxSkus == 6
MaxLocs == 2

SkuA ==
    [SKU_ID |-> "SKU-A", AI_Priority_Score_100 |-> 90,
     SKU_Size_Class |-> "Medium",
     Handling_Type |-> " Fragile",
     Family_or_Category |-> "Glassware"]

SkuB ==
    [SKU_ID |-> "SKU-B", AI_Priority_Score_100 |-> 90,
     SKU_Size_Class |-> "Large",
     Handling_Type |-> "standard",
     Family_or_Category |-> "Hazardous Chemicals"]

SkuC ==
    [SKU_ID |-> "SKU-C", AI_Priority_Score_100 |-> 40,
     SKU_Size_Class |-> "Small",
     Handling_Type |-> NaN,
     Family_or_Category |-> "Glassware"]

SkuCatalog == {SkuA, SkuB, SkuC}

\* Golden, medium and large fragile goods only: takes SkuA
LocG ==
    [Location_ID |-> "LOC-G", Zone |-> "Golden", Aisle |-> "Aisle-07",
     Rack |-> 1, Level |-> 1,
     Allowed_Size_Class |-> "M+L",
     Special_Constraint |-> "Fragile-only"]

\* Standard, chilled, any size: takes SkuA and SkuC, not the hazardous SkuB
LocS ==
    [Location_ID |-> "LOC-S", Zone |-> "Standard", Aisle |-> "Aisle-2",
     Rack |-> 2, Level |-> 1,
     Allowed_Size_Class |-> NaN,
     Special_Constraint |-> "Chilled storage"]

\* no recognised zone, no restriction: takes every SKU
LocO ==
    [Location_ID |-> "LOC-O", Zone |-> NaN, Aisle |-> "Bulk",
     Rack |-> 1, Level |-> 2,
     Allowed_Size_Class |-> NaN,
     Special_Constraint |-> NaN]

LocCatalog == {LocG, LocS, LocO}

SeqsUpTo(S, n) == UNION {[1..m -> S] : m \in 0..n}

\* Location_ID identifies a location: no table lists one twice
LocTables ==
    {t \in SeqsUpTo(LocCatalog, MaxLocs) :
        \A i, j \in 1..Len(t) : i # j => t[i].Location_ID # t[j].Location_ID}

\* the rows of a table given as blocks: r[i].count copies of r[i].row, block after block
RECURSIVE Expand(_)
Expand(r) ==
    IF r = <<>> THEN <<>>
    ELSE [i \in 1..Head(r).count |-> Head(r).row] \o Expand(Tail(r))

\* a SKU table is made of at most as many blocks of identical rows as there are
\* different rows to choose from
MaxRuns == Cardinality(SkuCatalog)

\* SKU tables of up to MaxSkus rows (a SKU_ID may occur in several rows)
SkuTables ==
    {t \in {Expand(r) : r \in SeqsUpTo([row : SkuCatalog, count : 1..MaxSkus], MaxRuns)} :
        Len(t) <= MaxSkus}

ScoreColumns == {"AI_Priority_Score_100", "AI_Priority_Score"}

\* the columns every SKU table has
SkuColumns == {"SKU_ID", "SKU_Size_Class", "Handling_Type", "Family_or_Category"}

\* the AI_Priority_Score column of the catalog's rows, where a table has that column
AI_Priority_Score == "SKU-A" :> 30 @@ "SKU-B" :> 35 @@ "SKU-C" :> 70

\* the catalog row as it reads in a table whose score columns are cols
WithScoreColumns(row, cols) ==
    IF cols = {"AI_Priority_Score_100"} THEN row
    ELSE IF cols = {"AI_Priority_Score"} THEN
        [SKU_ID |-> row.SKU_ID, AI_Priority_Score |-> AI_Priority_Score[row.SKU_ID],
         SKU_Size_Class |-> row.SKU_Size_Class, Handling_Type |-> row.Handling_Type,
         Family_or_Category |-> row.Family_or_Category]
    ELSE IF cols = {} THEN
        [SKU_ID |-> row.SKU_ID,
         SKU_Size_Class |-> row.SKU_Size_Class, Handling_Type |-> row.Handling_Type,
         Family_or_Category |-> row.Family_or_Category]
    ELSE
        [SKU_ID |-> row.SKU_ID, AI_Priority_Score_100 |-> row.AI_Priority_Score_100,
         AI_Priority_Score |-> AI_Priority_Score[row.SKU_ID],
         SKU_Size_Class |-> row.SKU_Size_Class, Handling_Type |-> row.Handling_Type,
         Family_or_Category |-> row.Family_or_Category]

\* arguments for single calls of the compatibility checker
ProbeSizes == 
    {"Small", "Medium", "Large", " Medium ", "small", "XL", "", NaN, Absent}

ProbeAllowed == 
    {"S", "M", "L", "M+L", " m+l ", "s", "X", "", " ", NaN, Absent}

ProbeHandling == 
    {"fragile", " FRAGILE ", "fragile item", "standard", NaN, Absent}

ProbeSpecial == 
    {"Fragile-only", "Chilled storage", "Chilled, FRAGILE-ONLY", "Fragile only", "", NaN, Absent}

ProbeFamily == 
    {"Hazardous Chemicals", "Glassware", NaN, Absent}

ProbeSkus ==
    [SKU_Size_Class : ProbeSizes, Handling_Type : ProbeHandling,
     Family_or_Category : ProbeFamily]

ProbeLocs == [Allowed_Size_Class : ProbeAllowed, Special_Constraint : ProbeSpecial]

-----------------------------------------------------------------------------
(* The run: main() from the return of normalise_cols to the return of       *)
(* assign_skus, and a further call of assign_skus on the same two tables    *)

\* the second call is explored for the shorter SKU tables
MaxRerunSkus == MaxSkus \div 2

\* main after load_data and normalise_cols: a SKU table that has the
\* AI_Priority_Score_100 column, and a location table
Init ==
    /\ sku_columns = SkuColumns \cup {"AI_Priority_Score_100"}
    /\ sku_df \in SkuTables
    /\ loc_in \in LocTables
    /\ loc_df = <<>>
    /\ sorted = <<>>
    /\ assignments = <<>>
    /\ k = 0
    /\ pc = "normalised"
    /\ pass = 0
    /\ first_out = <<>>
    /\ out_file = Null
    /\ seen = <<>>
    /\ probe = <<>>

\* main: loc_df = prepare_locations(loc_df)
Prepare ==
    /\ pc = "normalised"
    /\ loc_df' = prepare_locations(loc_in)
    /\ pc' = "ranked"
    /\ UNCHANGED <<sku_columns, sku_df, loc_in, sorted, assignments, k, pass, first_out,
                   out_file, seen, probe>>

\* assign_skus up to its loops: sort_values on the score column with the default
\* kind (quicksort), which fixes the order of unequal scores only
Enter ==
    /\ pc = "ranked"
    /\ sorted' \in DescendingOrders(sku_df)
    /\ assignments' = <<>>
    /\ k' = 0
    /\ seen' = <<>>
    /\ pass' = 1
    /\ pc' = "scan"
    /\ UNCHANGED <<sku_columns, sku_df, loc_in, loc_df, first_out, out_file, probe>>

\* one turn of the outer loop: the scan of loc_df for the next SKU, and its record
AssignNext ==
    /\ pc = "scan"
    /\ k < Len(sorted)
    /\ LET sku_row == sorted[k + 1]
           loc_idx == Scan(sku_row, loc_df, 1)
       IN  /\ assignments' = assignments \o Emitted(sku_row, loc_df, loc_idx)
           /\ loc_df' = Counted(loc_df, loc_idx)
    /\ seen' = Append(seen, [i \in 1..Len(loc_df) |-> loc_df[i].Used_Slots])
    /\ k' = k + 1
    /\ UNCHANGED <<sku_columns, sku_df, loc_in, sorted, pc, pass, first_out, out_file, probe>>

\* return pd.DataFrame(assignments)
Return ==
    /\ pc = "scan"
    /\ k = Len(sorted)
    /\ pc' = "returned"
    /\ first_out' = IF pass = 1 THEN assignments ELSE first_out
    /\ UNCHANGED <<sku_columns, sku_df, loc_in, loc_df, sorted, assignments, k, pass,
                   out_file, seen, probe>>

\* assign_skus called again with the same sku_df and the same loc_df object: the
\* sort of the same rows gives the same order again, and loc_df is as the previous
\* call left it
Rerun ==
    /\ pc = "returned"
    /\ pass = 1
    /\ Len(sku_df) <= MaxRerunSkus
    /\ sorted' = sorted
    /\ assignments' = <<>>
    /\ k' = 0
    /\ seen' = <<>>
    /\ pass' = pass + 1
    /\ pc' = "scan"
    /\ UNCHANGED <<sku_columns, sku_df, loc_in, loc_df, first_out, out_file, probe>>

Next == Prepare \/ Enter \/ AssignNext \/ Return \/ Rerun

Spec == Init /\ [][Next]_vars

-----------------------------------------------------------------------------
(* The whole of main(): load_data, normalise_cols, prepare_locations,       *)
(* assign_skus, to_csv                                                      *)

\* the column test moved to both score columns: either one is enough
HasRequiredColumns_either(columns) ==
    "AI_Priority_Score_100" \in columns \/ "AI_Priority_Score" \in columns

\* normalise_cols: "AI_Priority_Score_100" not in sku_df.columns raises
HasRequiredColumns(columns) == "AI_Priority_Score_100" \in columns

\* load_data: a SKU table with any of the score columns, or none, and a location
\* table; the tables with both score columns are the shorter ones
InitMain ==
    /\ \E table \in SkuTables : \E cols \in SUBSET ScoreColumns :
          /\ cols = ScoreColumns => Len(table) <= MaxRerunSkus
          /\ sku_columns = SkuColumns \cup cols
          /\ sku_df = [i \in 1..Len(table) |-> WithScoreColumns(table[i], cols)]
    /\ loc_in \in LocTables
    /\ loc_df = <<>>
    /\ sorted = <<>>
    /\ assignments = <<>>
    /\ k = 0
    /\ pc = "loaded"
    /\ pass = 0
    /\ first_out = <<>>
    /\ out_file = Null
    /\ seen = <<>>
    /\ probe = <<>>

\* main: sku_df, loc_df = normalise_cols(sku_df, loc_df); the ValueError ends the run
Normalise ==
    /\ pc = "loaded"
    /\ pc' = IF HasRequiredColumns(sku_columns) THEN "normalised" ELSE "aborted"
    /\ UNCHANGED <<sku_columns, sku_df, loc_in, loc_df, sorted, assignments, k, pass,
                   first_out, out_file, seen, probe>>

\* main: assignment_df.to_csv(OUTPUT_FILE, index=False)
WriteCsv ==
    /\ pc = "returned"
    /\ out_file' = Cell(assignments)
    /\ pc' = "done"
    /\ UNCHANGED <<sku_columns, sku_df, loc_in, loc_df, sorted, assignments, k, pass,
                   first_out, seen, probe>>

NextMain == Normalise \/ Prepare \/ Enter \/ AssignNext \/ Return \/ WriteCsv

SpecMain == InitMain /\ [][NextMain]_vars

-----------------------------------------------------------------------------
(* Single calls of the location ranker *)

MaxRankLocs == 3

RankRow(id, zone, aisle, rack, level) ==
    [Location_ID |-> id, Zone |-> zone, Aisle |-> aisle, Rack |-> rack, Level |-> level,
     Allowed_Size_Class |-> NaN, Special_Constraint |-> NaN]

\* locations that differ in one part of the sort key at a time, two of them
\* (LOC-2, LOC-3) in no part of it
RankCatalog ==
    {RankRow("LOC-1", "Golden", "Aisle-07", 1, 1),
     RankRow("LOC-2", "Golden", "Aisle-2", 1, 1),
     RankRow("LOC-3", "Golden", "Aisle-2", 1, 1),
     RankRow("LOC-4", "Golden", "Aisle-2", 2, 1),
     RankRow("LOC-5", "Golden", "Aisle-2", 1, 2),
     RankRow("LOC-6", "Golden", "Bay 12-3", 1, 1),
     RankRow("LOC-7", "Standard", "Bulk", 1, 1),
     RankRow("LOC-8", "Overflow", NaN, 1, 1),
     RankRow("LOC-9", "Mezzanine", "Aisle-2", 1, 1),
     RankRow("LOC-10", NaN, "Aisle-07", 1, 1)}

RankTables ==
    {t \in SeqsUpTo(RankCatalog, MaxRankLocs) :
        \A i, j \in 1..Len(t) : i # j => t[i].Location_ID # t[j].Location_ID}

InitRank ==
    /\ sku_columns = SkuColumns \cup {"AI_Priority_Score_100"}
    /\ sku_df = <<>>
    /\ loc_in \in RankTables
    /\ loc_df = <<>>
    /\ sorted = <<>>
    /\ assignments = <<>>
    /\ k = 0
    /\ pc = "normalised"
    /\ pass = 0
    /\ first_out = <<>>
    /\ out_file = Null
    /\ seen = <<>>
    /\ probe = <<>>

NextRank == Prepare

SpecRank == InitRank /\ [][NextRank]_vars

-----------------------------------------------------------------------------
(* Single calls of the compatibility checker *)

InitProbe ==
    /\ sku_columns = {}
    /\ sku_df = <<>>
    /\ loc_in = <<>>
    /\ loc_df = <<>>
    /\ sorted = <<>>
    /\ assignments = <<>>
    /\ k = 0
    /\ pc = "probe"
    /\ pass = 0
    /\ first_out = <<>>
    /\ out_file = Null
    /\ seen = <<>>
    /\ probe \in [sku_row : ProbeSkus, loc_row : ProbeLocs, called : {"none"},
                  result : {FALSE}]

CallSizeFits ==
    /\ pc = "probe"
    /\ probe.called = "none"
    /\ probe' = [probe EXCEPT !.called = "size_fits",
                              !.result = size_fits(Get(probe.sku_row, "SKU_Size_Class"),
                                                   Get(probe.loc_row, "Allowed_Size_Class"))]
    /\ UNCHANGED <<sku_columns, sku_df, loc_in, loc_df, sorted, assignments, k, pc, pass,
                   first_out, out_file, seen>>

CallCanStore ==
    /\ pc = "probe"
    /\ probe.called = "none"
    /\ probe' = [probe EXCEPT !.called = "can_store",
                              !.result = can_store(probe.sku_row, probe.loc_row)]
    /\ UNCHANGED <<sku_columns, sku_df, loc_in, loc_df, sorted, assignments, k, pc, pass,
                   first_out, out_file, seen>>

NextProbe == CallSizeFits \/ CallCanStore

SpecProbe == InitProbe /\ [][NextProbe]_vars

-----------------------------------------------------------------------------
(* Properties of the assignment pass.  Record i of assignments belongs to   *)
(* sorted[i], the i-th SKU processed, and seen[i] is the Used_Slots column  *)
(* as it stood when the scan for that SKU began.                            *)

Min(S) == CHOOSE x \in S : \A y \in S : x <= y

\* the record carries the identifying fields of location l of the ranked table
NamesLoc(rec, l) ==
    /\ rec.Location_ID = Cell(loc_df[l].Location_ID)
    /\ rec.Zone = Cell(loc_df[l].Zone)
    /\ rec.Aisle = Cell(loc_df[l].Aisle)
    /\ rec.Rack = Cell(loc_df[l].Rack)
    /\ rec.Level = Cell(loc_df[l].Level)

AllNull(rec) ==
    /\ rec.Zone = Null
    /\ rec.Aisle = Null
    /\ rec.Rack = Null
    /\ rec.Level = Null
    /\ rec.Location_ID = Null

\* the locations that were below capacity when SKU i was processed and can store sku_row
Qualifying(i, sku_row) ==
    {l \in 1..Len(loc_df) :
        seen[i][l] < MAX_SKUS_PER_LOCATION /\ can_store(sku_row, loc_df[l])}

UsedNow == [l \in 1..Len(loc_df) |-> loc_df[l].Used_Slots]

\* the Used_Slots column right after SKU i was processed
UsedAfter(i) == IF i < k THEN seen[i + 1] ELSE UsedNow

CountIn(table, id) == Cardinality({i \in 1..Len(table) : table[i].SKU_ID = id})

\* C1: when assign_skus returns, there is exactly one record per input SKU row: as
\* many records as rows, and every SKU_ID in as many records as input rows.
C1_OneRecordPerSku ==
    pc = "returned" =>
        /\ Len(assignments) = Len(sku_df)
        /\ \A id \in {sku_df[i].SKU_ID : i \in 1..Len(sku_df)}
                     \cup {assignments[i].SKU_ID : i \in 1..Len(assignments)} :
               CountIn(assignments, id) = CountIn(sku_df, id)

\* C1 witness: a returned pass over an empty location table, for a SKU table of at
\* least three rows in which a SKU_ID occurs twice.
C1_Witness ==
    /\ pc = "returned"
    /\ loc_df = <<>>
    /\ Len(sku_df) >= 3
    /\ \E i, j \in 1..Len(sku_df) : i # j /\ sku_df[i].SKU_ID = sku_df[j].SKU_ID
    /\ \E i, j \in 1..Len(sku_df) : sku_df[i].SKU_ID # sku_df[j].SKU_ID

\* C2: in every state of a pass no location's Used_Slots exceeds MAX_SKUS_PER_LOCATION.
C2_CounterWithinCap ==
    \A l \in 1..Len(loc_df) : loc_df[l].Used_Slots <= MAX_SKUS_PER_LOCATION

\* C2 witness: in the first pass, a SKU was processed that a location could store
\* while that location was already at the cap.
C2_Witness ==
    /\ pass = 1
    /\ \E i \in 1..k : \E l \in 1..Len(loc_df) :
          /\ seen[i][l] = MAX_SKUS_PER_LOCATION
          /\ can_store(sorted[i], loc_df[l])

\* C3: every record that names a location names a SKU and a location of the ranked
\* table for which can_store is true.
C3_PlacedIsCompatible ==
    \A i \in 1..Len(assignments) :
        /\ assignments[i].SKU_ID = sorted[i].SKU_ID
        /\ assignments[i].Location_ID # Null =>
              \E l \in 1..Len(loc_df) :
                  NamesLoc(assignments[i], l) /\ can_store(sorted[i], loc_df[l])

\* C3 witness: a SKU was placed behind a location that had room for it but could not
\* store it.
C3_Witness ==
    \E i \in 1..k : \E l \in 1..Len(loc_df) : \E e \in 1..(l - 1) :
        /\ NamesLoc(assignments[i], l)
        /\ seen[i][e] < MAX_SKUS_PER_LOCATION
        /\ ~can_store(sorted[i], loc_df[e])

\* C4: if SKU a has a strictly higher score than SKU b and, when the first of the two
\* is processed, one and the same location is the only one with room that either can
\* be stored in, both can be stored in it and it has exactly one slot left, then a
\* gets that location and b's record is unplaced.
C4_ScarceSlotGoesToHigher ==
    \A a, b \in 1..k : \A l \in 1..Len(loc_df) :
        LET t == IF a < b THEN a ELSE b
        IN  (/\ Score(sorted[a]) > Score(sorted[b])
             /\ seen[t][l] = MAX_SKUS_PER_LOCATION - 1
             /\ Qualifying(t, sorted[a]) = {l}
             /\ Qualifying(t, sorted[b]) = {l})
                => /\ NamesLoc(assignments[a], l)
                   /\ AllNull(assignments[b])

\* C4 witness: two processed SKUs of different score that faced one last slot, which
\* both could be stored in, of a table of two locations.
C4_Witness ==
    /\ Len(loc_df) = 2
    /\ \E a, b \in 1..k : \E l \in 1..Len(loc_df) :
          /\ Score(sorted[a]) > Score(sorted[b])
          /\ a < b
          /\ seen[a][l] = MAX_SKUS_PER_LOCATION - 1
          /\ Qualifying(a, sorted[a]) = {l}
          /\ Qualifying(a, sorted[b]) = {l}
          /\ NamesLoc(assignments[a], l)
          /\ AllNull(assignments[b])

\* C5: a SKU is placed only if some location qualifies (below capacity when the SKU is
\* processed, and can_store), and whenever one qualifies the SKU is placed at the
\* earliest qualifying location of the ranked table: full and incompatible locations
\* are passed over and the scan goes on.
C5_FirstFitContinues ==
    \A i \in 1..k :
        LET q == Qualifying(i, sorted[i])
        IN  /\ assignments[i].Location_ID # Null => q # {}
            /\ q # {} => NamesLoc(assignments[i], Min(q))

\* C5 witness: a SKU placed at a later location although an earlier location of the
\* ranked table, then at the cap, can store it (the sixth SKU).
C5_Witness ==
    \E i \in 1..k : \E l \in 1..Len(loc_df) : \E e \in 1..(l - 1) :
        /\ NamesLoc(assignments[i], l)
        /\ seen[i][e] = MAX_SKUS_PER_LOCATION
        /\ can_store(sorted[i], loc_df[e])

\* C6: a record has its five location fields null exactly when no location qualified
\* as its SKU was processed, and processing that SKU left every Used_Slots unchanged.
C6_UnplacedIffNoneQualify ==
    \A i \in 1..k :
        /\ AllNull(assignments[i]) <=> Qualifying(i, sorted[i]) = {}
        /\ AllNull(assignments[i]) => UsedAfter(i) = seen[i]

\* C6 witness: an unplaced SKU, one location being full though able to store it and
\* another having room but unable to store it.
C6_Witness ==
    \E i \in 1..k : \E l, e \in 1..Len(loc_df) :
        /\ AllNull(assignments[i])
        /\ seen[i][l] = MAX_SKUS_PER_LOCATION /\ can_store(sorted[i], loc_df[l])
        /\ seen[i][e] < MAX_SKUS_PER_LOCATION /\ ~can_store(sorted[i], loc_df[e])

\* C7: a second call of assign_skus with the same SKU table and the same ranked
\* location table returns the same list as the first: same records, same order.
C7_SecondCallSameOutput ==
    (pc = "returned" /\ pass = 2) => assignments = first_out

\* descending by score, rows of equal score in their input order
RECURSIVE StableDescending(_)
StableDescending(rows) ==
    IF rows = <<>> THEN <<>>
    ELSE LET rest == StableDescending(SubSeq(rows, 1, Len(rows) - 1))
             last == rows[Len(rows)]
             n == Cardinality({i \in 1..Len(rest) : Score(rest[i]) >= Score(last)})
         IN  SubSeq(rest, 1, n) \o <<last>> \o SubSeq(rest, n + 1, Len(rest))

\* C8: the SKUs are processed, and their records emitted, in descending order of
\* score with rows of equal score in their input order.
C8_StableDescendingOrder ==
    pc \in {"scan", "returned"} =>
        /\ sorted = StableDescending(sku_df)
        /\ \A i \in 1..Len(assignments) : assignments[i].SKU_ID = sorted[i].SKU_ID

-----------------------------------------------------------------------------
(* Properties of the compatibility checker *)

ProbeSize == Get(probe.sku_row, "SKU_Size_Class")
ProbeAllowedSize == Get(probe.loc_row, "Allowed_Size_Class")

\* the size rule as stated: an unrecognised SKU size or an absent or empty allowed
\* size is compatible; otherwise the trimmed, upper-cased allowed code is the SKU's
\* code, or is "M+L" with the SKU's code M or L
StatedSizeRule(sku_size, allowed) ==
    LET code == size_map(Strip(Str(sku_size)))
    IN  \/ code = NoCode
        \/ allowed \in {NaN, None}
        \/ Strip(Str(allowed)) = <<>>
        \/ Upper(Strip(Str(allowed))) = code
        \/ Upper(Strip(Str(allowed))) = TxtMplusL /\ code \in {TxtM, TxtL}

\* C9: size_fits returns the value of the size rule as stated.
C9_SizeFitsAsStated ==
    (pc = "probe" /\ probe.called = "size_fits") =>
        probe.result = StatedSizeRule(ProbeSize, ProbeAllowedSize)

\* C10: can_store is true exactly when the size fit holds, the special constraint does
\* not contain "fragile-only" or the trimmed, lower-cased handling type is "fragile",
\* and the special constraint does not contain "chilled" while the category contains
\* "hazard" (case-insensitive).
C10_CanStoreIsThreeRules ==
    (pc = "probe" /\ probe.called = "can_store") =>
        LET special == Lower(Str(GetOr(probe.loc_row, "Special_Constraint", "")))
            handling == Strip(Lower(Str(GetOr(probe.sku_row, "Handling_Type", ""))))
            family == Lower(Str(GetOr(probe.sku_row, "Family_or_Category", "")))
        IN  probe.result <=>
                /\ size_fits(ProbeSize, ProbeAllowedSize)
                /\ ~Contains(TxtFragileOnly, special) \/ handling = TxtFragile
                /\ ~(Contains(TxtChilled, special) /\ Contains(TxtHazard, family))

\* C10 witness: can_store called and false for a hazardous SKU with fragile handling
\* in a chilled fragile-only location that fits its size: only the third rule fails.
C10_Witness ==
    /\ pc = "probe"
    /\ probe.called = "can_store"
    /\ ~probe.result
    /\ size_fits(ProbeSize, ProbeAllowedSize)
    /\ probe.sku_row.Handling_Type = " FRAGILE "
    /\ probe.sku_row.Family_or_Category = "Hazardous Chemicals"
    /\ probe.loc_row.Special_Constraint = "Chilled, FRAGILE-ONLY"

\* the record with every missing cell and every absent column read as the empty text
BlankMissing(row) ==
    [c \in DOMAIN row |-> IF row[c] \in {NaN, Absent} THEN "" ELSE row[c]]

\* C11: whichever of the five fields are missing or absent, can_store returns a
\* boolean, and it is the one it returns when those fields hold the empty text.
C11_MissingAsEmpty ==
    (pc = "probe" /\ probe.called = "can_store") =>
        /\ probe.result \in BOOLEAN
        /\ probe.result = can_store(BlankMissing(probe.sku_row), BlankMissing(probe.loc_row))

-----------------------------------------------------------------------------
(* Properties of the location ranker *)

Max(S) == CHOOSE x \in S : \A y \in S : y <= x

Digits == {DigitChars[i] : i \in 1..Len(DigitChars)}

\* the number written by the digits s[p..q]
RECURSIVE NumberOf(_, _, _)
NumberOf(s, p, q) ==
    IF p > q THEN 0
    ELSE NumberOf(s, p, q - 1) * 10 + (CHOOSE d \in 0..9 : DigitChars[d + 1] = s[q])

\* the number given by the first run of digits of the aisle text, 0 if it has none
StatedAisleNumber(aisle) ==
    LET s == IF aisle = NaN THEN <<>> ELSE Chars[aisle]
        at == {i \in 1..Len(s) : s[i] \in Digits}
    IN  IF at = {} THEN 0
        ELSE LET p == Min(at)
                 q == Max({j \in p..Len(s) : \A m \in p..j : s[m] \in Digits})
             IN  NumberOf(s, p, q)

StatedZoneRank(zone) ==
    CASE zone = "Golden" -> 0
      [] zone = "Standard" -> 1
      [] zone = "Overflow" -> 2
      [] OTHER -> 3

StatedKey(loc) ==
    <<StatedZoneRank(loc.Zone), loc.Level, StatedAisleNumber(loc.Aisle), loc.Rack>>

\* x comes before y in the order of the keys: smaller at the first part that differs
KeyBefore(x, y) ==
    \E n \in 1..4 : x[n] < y[n] /\ \A m \in 1..(n - 1) : x[m] = y[m]

\* the ranked row carries the fields of the input row
SameLocation(ranked, loc) == \A c \in DOMAIN loc : ranked[c] = loc[c]

\* the place in the input table of the i-th ranked location
Origin(i) == CHOOSE j \in 1..Len(loc_in) : loc_in[j].Location_ID = loc_df[i].Location_ID

\* C12: prepare_locations returns every input location once, in ascending order of
\* (zone rank, Level, aisle number, Rack) with Golden 0, Standard 1, Overflow 2 and
\* any other or missing zone 3, and locations of equal key in their input order.
C12_RankedByKeyStable ==
    pc = "ranked" =>
        /\ Len(loc_df) = Len(loc_in)
        /\ \A j \in 1..Len(loc_in) : \E i \in 1..Len(loc_df) : SameLocation(loc_df[i], loc_in[j])
        /\ \A i, j \in 1..Len(loc_df) :
               i < j =>
                   LET x == StatedKey(loc_in[Origin(i)])
                       y == StatedKey(loc_in[Origin(j)])
                   IN  KeyBefore(x, y) \/ (x = y /\ Origin(i) < Origin(j))

\* C12 witness: a ranked table in which "Aisle-2" was moved in front of "Aisle-07" of
\* the same zone and level, and two locations of equal key follow each other.
C12_Witness ==
    /\ pc = "ranked"
    /\ Len(loc_df) = 3
    /\ \E i, j \in 1..Len(loc_df) :
          /\ i < j /\ Origin(i) > Origin(j)
          /\ loc_df[i].Aisle = "Aisle-2" /\ loc_df[j].Aisle = "Aisle-07"
          /\ loc_df[i].Zone = loc_df[j].Zone /\ loc_df[i].Level = loc_df[j].Level
    /\ \E i, j \in 1..Len(loc_df) :
          i < j /\ StatedKey(loc_df[i]) = StatedKey(loc_df[j])

-----------------------------------------------------------------------------
(* Properties of the whole run *)

\* C13: a run whose SKU table lacks the AI_Priority_Score_100 column never gets
\* past normalise_cols: it is at its start or aborted, no location is ranked, no
\* SKU sorted or assigned, no counter exists and the output file is not written.
C13_SchemaErrorAborts ==
    "AI_Priority_Score_100" \notin sku_columns =>
        /\ pc \in {"loaded", "aborted"}
        /\ loc_df = <<>>
        /\ sorted = <<>>
        /\ assignments = <<>>
        /\ k = 0
        /\ pass = 0
        /\ out_file = Null

\* C13 witness: an aborted run that had SKU rows and locations to work on.
C13_Witness ==
    /\ pc = "aborted"
    /\ "AI_Priority_Score_100" \notin sku_columns
    /\ Len(sku_df) >= 2
    /\ Len(loc_in) >= 1

\* C14: a run whose SKU table has AI_Priority_Score but not AI_Priority_Score_100
\* is accepted, processes the SKUs in descending order of AI_Priority_Score and
\* reports that value as Priority_Score in every record.
C14_FallbackScoreAccepted ==
    ("AI_Priority_Score_100" \notin sku_columns /\ "AI_Priority_Score" \in sku_columns) =>
        /\ pc # "aborted"
        /\ \A i, j \in 1..Len(sorted) :
               i < j => sorted[i].AI_Priority_Score >= sorted[j].AI_Priority_Score
        /\ \A i \in 1..Len(assignments) :
               assignments[i].Priority_Score = sorted[i].AI_Priority_Score

-----------------------------------------------------------------------------
(* Properties of the assignment pass of a run *)

\* assign_skus has been called and has not returned
InPass == pc \in {"ranked", "scan"}

\* a step that leaves alone the caller's SKU table (its rows, their order, its
\* columns), the number and order of the rows of the ranked location table and
\* every field of a location other than Used_Slots
KeepsAllButCounters ==
    /\ sku_df' = sku_df
    /\ sku_columns' = sku_columns
    /\ loc_in' = loc_in
    /\ Len(loc_df') = Len(loc_df)
    /\ \A l \in 1..Len(loc_df) :
           \A c \in DOMAIN loc_df[l] \ {"Used_Slots"} : loc_df'[l][c] = loc_df[l][c]

\* C15: every step of assign_skus, from its entry to its return, changes nothing of
\* the SKU table the caller passed and nothing of the ranked location table but
\* Used_Slots values.
C15_OnlyCountersChange == [][InPass => KeepsAllButCounters]_vars

\* C15 witness: a finished pass over two locations that raised a counter and
\* processed the SKUs in another order than the caller's table lists them.
C15_Witness ==
    /\ pc = "returned"
    /\ Len(loc_df) = 2
    /\ sorted # sku_df
    /\ \E l \in 1..Len(loc_df) : loc_df[l].Used_Slots > 0
    /\ \E l \in 1..Len(loc_df) : loc_df[l].Used_Slots = 0

\* C16: if SKU a has a strictly higher score than SKU b, b's record names location l
\* and can_store is true for a and l, then a's record names l or a location ranked
\* before l; in particular a is not unplaced.
C16_NoPriorityInversion ==
    \A a, b \in 1..k : \A l \in 1..Len(loc_df) :
        (/\ Score(sorted[a]) > Score(sorted[b])
         /\ NamesLoc(assignments[b], l)
         /\ can_store(sorted[a], loc_df[l]))
            => \E e \in 1..l : NamesLoc(assignments[a], e)

\* C16 witness: the lower-scored SKU was placed at a later location because the
\* earlier one, which can store it and holds the higher-scored SKU, was full.
C16_Witness ==
    \E a, b \in 1..k : \E l \in 1..Len(loc_df) : \E e \in 1..(l - 1) :
        /\ Score(sorted[a]) > Score(sorted[b])
        /\ NamesLoc(assignments[b], l)
        /\ NamesLoc(assignments[a], e)
        /\ can_store(sorted[a], loc_df[l])
        /\ can_store(sorted[b], loc_df[e])
        /\ seen[b][e] = MAX_SKUS_PER_LOCATION

\* the number of records emitted so far that name location l
RecordsNaming(l) == Cardinality({i \in 1..Len(assignments) : NamesLoc(assignments[i], l)})

\* C17: every Used_Slots is 0 when prepare_locations returns; at every point of the
\* pass the Used_Slots of a location is the number of records emitted so far that
\* name it; and processing a SKU raises the counter of the location its record
\* names by one and leaves every other counter as it was.
C17_CounterCountsRecords ==
    /\ pc = "ranked" => \A l \in 1..Len(loc_df) : loc_df[l].Used_Slots = 0
    /\ \A l \in 1..Len(loc_df) : loc_df[l].Used_Slots = RecordsNaming(l)
    /\ \A i \in 1..k : \A l \in 1..Len(loc_df) :
           UsedAfter(i)[l] = seen[i][l] + (IF NamesLoc(assignments[i], l) THEN 1 ELSE 0)

\* C17 witness: a finished pass that filled one location and placed SKUs at another.
C17_Witness ==
    /\ pc = "returned"
    /\ \E l, e \in 1..Len(loc_df) :
          /\ loc_df[l].Used_Slots = MAX_SKUS_PER_LOCATION
          /\ loc_df[e].Used_Slots > 0
          /\ loc_df[e].Used_Slots < MAX_SKUS_PER_LOCATION

\* C18: processing a SKU never lowers a Used_Slots, and from the moment a location's
\* Used_Slots has reached MAX_SKUS_PER_LOCATION no record emitted later names it.
C18_CountersOnlyGrow ==
    \A l \in 1..Len(loc_df) :
        /\ \A i \in 1..k : seen[i][l] <= UsedAfter(i)[l]
        /\ \A i, j \in 1..k :
               (i <= j /\ seen[i][l] >= MAX_SKUS_PER_LOCATION) => ~NamesLoc(assignments[j], l)

\* C18 witness: a SKU took the last slot of a location, and a later SKU that the
\* location can store has a record that does not name it.
C18_Witness ==
    \E l \in 1..Len(loc_df) : \E i, j \in 1..k :
        /\ i < j
        /\ seen[i][l] = MAX_SKUS_PER_LOCATION - 1
        /\ NamesLoc(assignments[i], l)
        /\ can_store(sorted[j], loc_df[l])
        /\ ~NamesLoc(assignments[j], l)

=============================================================================
